---- MODULE Spec2Model ----
(***************************************************************************)
(* A model of docctl.py, the document control automation script: one run   *)
(* (process_project) takes the transmittal directories found under         *)
(* "Pending Transmittals", validates each one's manifest against the       *)
(* history table, and either appends it to the history table, merges it    *)
(* into the latest-version index, mirrors its files into "Current Files"   *)
(* and moves it under "Accepted Transmittals", or moves it under           *)
(* "Rejected Transmittals".                                                *)
(*                                                                         *)
(* Text is a sequence of one-character strings, so that strip(), lower(),  *)
(* upper(), "in" and sorted() are computed as Python computes them.  A     *)
(* cell value is <<"none">>, <<"str", text>> or <<"dt", n>> (a datetime).  *)
(***************************************************************************)
EXTENDS Integers, Sequences, FiniteSets, TLC

(* ------------------------------------------------------------------ *)
(* Bounds of the model                                                  *)
(* ------------------------------------------------------------------ *)

\* Transmittal directories submitted over the life of the project.
MaxTransmittals == 2

\* Data rows of one manifest.
MaxRows == 2

\* Directories waiting under "Pending Transmittals" at one time.
MaxPending == 2

(* ------------------------------------------------------------------ *)
(* Text                                                                 *)
(* ------------------------------------------------------------------ *)

LowerChars == <<"a","b","c","d","e","f","g","h","i","j","k","l","m",
                "n","o","p","q","r","s","t","u","v","w","x","y","z">>

UpperChars == <<"A","B","C","D","E","F","G","H","I","J","K","L","M",
                "N","O","P","Q","R","S","T","U","V","W","X","Y","Z">>

\* The characters of the model in code point order (what str comparison uses).
AsciiOrder == <<" ", "-", ".", "0", "1", "2", "3", "4", "5", "6", "7", "8", "9", ";">>
              \o UpperChars \o LowerChars

Chars == {AsciiOrder[i] : i \in 1..Len(AsciiOrder)}

\* ord(c), up to the characters the model leaves out.
OrdOf == [c \in Chars |-> CHOOSE i \in 1..Len(AsciiOrder) : AsciiOrder[i] = c]

Ord(c) == OrdOf[c]

\* str.lower() and str.upper(), one character.
LowerOf ==
    [c \in Chars |->
        IF \E i \in 1..Len(UpperChars) : UpperChars[i] = c
        THEN LowerChars[CHOOSE i \in 1..Len(UpperChars) : UpperChars[i] = c]
        ELSE c]

UpperOf ==
    [c \in Chars |->
        IF \E i \in 1..Len(LowerChars) : LowerChars[i] = c
        THEN UpperChars[CHOOSE i \in 1..Len(LowerChars) : LowerChars[i] = c]
        ELSE c]

LowerChar(c) == LowerOf[c]

UpperChar(c) == UpperOf[c]

\* The sequence f with its elements computed once.
Tuple(f) == f \o <<>>

Lower(s) == Tuple([i \in 1..Len(s) |-> LowerChar(s[i])])

Upper(s) == Tuple([i \in 1..Len(s) |-> UpperChar(s[i])])

RECURSIVE LStrip(_)
LStrip(s) == IF s # <<>> /\ Head(s) = " " THEN LStrip(Tail(s)) ELSE s

RECURSIVE RStripChar(_, _)
RStripChar(s, c) ==
    IF s # <<>> /\ s[Len(s)] = c THEN RStripChar(SubSeq(s, 1, Len(s) - 1), c) ELSE s

\* str.strip(): the only whitespace of the model is the blank.
Strip(s) == RStripChar(LStrip(s), " ")

\* "sub in s" on str.
Contains(sub, s) ==
    \E i \in 0..(Len(s) - Len(sub)) : SubSeq(s, i + 1, i + Len(sub)) = sub

\* s < t on str: by code points, a proper prefix first.
RECURSIVE StrLess(_, _)
StrLess(s, t) ==
    IF t = <<>> THEN FALSE
    ELSE IF s = <<>> THEN TRUE
    ELSE IF Head(s) = Head(t) THEN StrLess(Tail(s), Tail(t))
    ELSE Ord(Head(s)) < Ord(Head(t))

\* sorted(reverse=True): the greatest text first.
RECURSIVE SortedSeq_Descending(_)
SortedSeq_Descending(S) ==
    IF S = {} THEN <<>>
    ELSE LET m == CHOOSE x \in S : \A y \in S \ {x} : StrLess(y, x)
         IN  <<m>> \o SortedSeq_Descending(S \ {m})

\* sorted() of a set of distinct texts.
RECURSIVE SortedSeq(_)
SortedSeq(S) ==
    IF S = {} THEN <<>>
    ELSE LET m == CHOOSE x \in S : \A y \in S \ {x} : StrLess(x, y)
         IN  <<m>> \o SortedSeq(S \ {m})

\* sep.join(parts)
RECURSIVE Join(_, _)
Join(parts, sep) ==
    IF parts = <<>> THEN <<>>
    ELSE IF Len(parts) = 1 THEN parts[1]
    ELSE parts[1] \o sep \o Join(Tail(parts), sep)

\* str(k) for a counter 0..9
DigitText(k) == <<AsciiOrder[4 + k]>>

Range(f) == {f[i] : i \in DOMAIN f}

(* ------------------------------------------------------------------ *)
(* Cell values                                                          *)
(* ------------------------------------------------------------------ *)

NoneV == <<"none">>

Str(s) == <<"str", s>>

Dt(n) == <<"dt", n>>

IsNone(v) == v[1] = "none"

\* str(value): a datetime prints as a non-empty text.
PyStr(v) == IF v[1] = "str" THEN v[2] ELSE IF v[1] = "dt" THEN <<"d">> \o DigitText(v[2]) ELSE <<"N","o","n","e">>

\* "value is None or str(value).strip() == ''"
IsEmptyValue(v) == IsNone(v) \/ Strip(PyStr(v)) = <<>>

\* "cell.value in (None, '')"
IsBlankCell(v) == IsNone(v) \/ v = Str(<<>>)

(* ------------------------------------------------------------------ *)
(* Program constants                                                    *)
(* ------------------------------------------------------------------ *)

\* "TRANSMITTAL NUMBER"
H_TRANSMITTAL_NUMBER == <<"T","R","A","N","S","M","I","T","T","A","L"," ","N","U","M","B","E","R">>

\* "TRANSMITTAL NAME"
H_TRANSMITTAL_NAME == <<"T","R","A","N","S","M","I","T","T","A","L"," ","N","A","M","E">>

\* "DATE"
H_DATE == <<"D","A","T","E">>

\* "ITEM"
H_ITEM == <<"I","T","E","M">>

\* "DOCUMENT NUMBER 1"
H_DOCUMENT_NUMBER_1 == <<"D","O","C","U","M","E","N","T"," ","N","U","M","B","E","R"," ","1">>

\* "DOCUMENT NUMBER 2"
H_DOCUMENT_NUMBER_2 == <<"D","O","C","U","M","E","N","T"," ","N","U","M","B","E","R"," ","2">>

\* "TITLE"
H_TITLE == <<"T","I","T","L","E">>

\* "VERSION"
H_VERSION == <<"V","E","R","S","I","O","N">>

\* "DOCUMENT STATE"
H_DOCUMENT_STATE == <<"D","O","C","U","M","E","N","T"," ","S","T","A","T","E">>

\* "ISSUE OBJECTIVE"
H_ISSUE_OBJECTIVE == <<"I","S","S","U","E"," ","O","B","J","E","C","T","I","V","E">>

\* "HOLD LIST"
H_HOLD_LIST == <<"H","O","L","D"," ","L","I","S","T">>

\* "ISSUED BY"
H_ISSUED_BY == <<"I","S","S","U","E","D"," ","B","Y">>

\* "ISSUED TO"
H_ISSUED_TO == <<"I","S","S","U","E","D"," ","T","O">>

\* "FILENAMES"
H_FILENAMES == <<"F","I","L","E","N","A","M","E","S">>

EXPECTED_HEADERS ==
    <<H_TRANSMITTAL_NUMBER, H_TRANSMITTAL_NAME, H_DATE,
      H_ITEM, H_DOCUMENT_NUMBER_1, H_DOCUMENT_NUMBER_2,
      H_TITLE, H_VERSION, H_DOCUMENT_STATE,
      H_ISSUE_OBJECTIVE, H_HOLD_LIST, H_ISSUED_BY,
      H_ISSUED_TO>>

DATABASE_HEADERS == EXPECTED_HEADERS \o <<H_FILENAMES>>

REQUIRED_FIELDS ==
    {H_TRANSMITTAL_NUMBER, H_DATE, H_ITEM, H_DOCUMENT_NUMBER_1, H_TITLE, H_VERSION}

\* Position of a column of the transmittal schema.
Col(h) == CHOOSE i \in 1..Len(EXPECTED_HEADERS) : EXPECTED_HEADERS[i] = h

(* ------------------------------------------------------------------ *)
(* Header/field normalizers                                             *)
(* ------------------------------------------------------------------ *)

\* value.strip().rstrip(";").upper()
normalize_header(s) == Upper(RStripChar(Strip(s), ";"))

\* normalize_version raises ValueError on these values (normalize_doc_number too).
NormalizeRaises(v) == IsEmptyValue(v)

\* str(value).strip()
normalize_version(v) == Strip(PyStr(v))

\* str(value).strip().lower()
normalize_doc_number(v) == Lower(Strip(PyStr(v)))

\* dateutil's parser, as far as the model's texts go: a text of digits is a date.
DateParses(text) ==
    /\ text # <<>>
    /\ \A i \in 1..Len(text) : Ord(text[i]) \in Ord("0")..Ord("9")

\* coerce_date raises ValueError on these values.
CoerceDateRaises(v) ==
    IF v[1] = "dt" THEN FALSE
    ELSE IF IsNone(v) THEN TRUE
    ELSE IF Strip(PyStr(v)) = <<>> THEN TRUE
    ELSE ~DateParses(Strip(PyStr(v)))

\* coerce_date's result: a datetime passes through, a text is parsed.
coerce_date(v) ==
    IF v[1] = "dt" THEN v ELSE Dt(Ord(Strip(PyStr(v))[1]) - Ord("0"))

(* ------------------------------------------------------------------ *)
(* Tabular store accessor                                               *)
(* ------------------------------------------------------------------ *)

\* A workbook file: whether it exists, its header row and its data rows.
NoTable == [exists |-> FALSE, header |-> <<>>, rows |-> <<>>]

\* The dict built from one sheet row against the sheet's header row, read at the
\* columns of the transmittal schema: a later column of the same name wins,
\* a column the sheet lacks reads as None (dict.get).
RowRecord(names, row) ==
    Tuple([k \in 1..Len(EXPECTED_HEADERS) |->
        LET hits == {i \in 1..Len(names) : i <= Len(row) /\ names[i] = EXPECTED_HEADERS[k]}
        IN  IF hits = {} THEN NoneV
            ELSE row[CHOOSE i \in hits : \A j \in hits : j <= i]])

\* The header row of a sheet, each cell through normalize_header (a cell that is no
\* text has no name).
HeaderNames(headers) ==
    Tuple([i \in 1..Len(headers) |->
        IF headers[i][1] = "str" THEN normalize_header(headers[i][2]) ELSE <<>>])

\* read_sheet_rows with the test of the expected columns left out.
ReadSheetRaises_EmptyOnly(sheet) ==
    \E i \in 1..Len(sheet.header) : sheet.header[i][1] # "str"

\* read_sheet_rows raises: an empty header cell (or one that is no text), or a
\* column of the transmittal schema missing from the normalized header.
ReadSheetRaises(sheet) ==
    \/ \E i \in 1..Len(sheet.header) : sheet.header[i][1] # "str"
    \/ ~(Range(EXPECTED_HEADERS) \subseteq Range(HeaderNames(sheet.header)))

\* read_sheet_rows: the records of the rows that are not entirely blank.
RECURSIVE SelectRows(_, _)
SelectRows(names, rows) ==
    IF rows = <<>> THEN <<>>
    ELSE IF \A i \in 1..Len(Head(rows)) : IsBlankCell(Head(rows)[i])
         THEN SelectRows(names, Tail(rows))
         ELSE <<RowRecord(names, Head(rows))>> \o SelectRows(names, Tail(rows))

read_sheet_rows(sheet) == SelectRows(HeaderNames(sheet.header), sheet.rows)

\* [normalize_header(c.value or "") for c in the header row] != the expected list
HeaderMismatch(table, headers) ==
    \/ \E i \in 1..Len(table.header) : table.header[i][1] = "dt"
    \/ HeaderNames(table.header) # Tuple([i \in 1..Len(headers) |-> normalize_header(headers[i])])

\* ensure_workbook: an existing workbook is opened, a missing one is created
\* with the canonical header row.
ensure_workbook(table, headers) ==
    IF table.exists THEN table
    ELSE [exists |-> TRUE, header |-> Tuple([i \in 1..Len(headers) |-> Str(headers[i])]),
          rows |-> <<>>]

EnsureWorkbookRaises(table, headers) == table.exists /\ HeaderMismatch(table, headers)

(* ------------------------------------------------------------------ *)
(* Version history index                                                *)
(* ------------------------------------------------------------------ *)

\* header_map[name]: the last column of the history table with that normalized name
\* (0 when there is none).
HeaderIndex(names, name) ==
    LET hits == {i \in 1..Len(names) : names[i] = name}
    IN  IF hits = {} THEN 0 ELSE CHOOSE i \in hits : \A j \in hits : j <= i

\* The history rows load_existing_versions does not skip.
VersionRows(rows, d, v) ==
    {i \in 1..Len(rows) : ~IsBlankCell(rows[i][d]) /\ ~IsBlankCell(rows[i][v])}

\* The two columns are not both there (0), or hold a value the normalizers refuse.
VersionColumnsRaise(rows, d, v) ==
    \/ d = 0
    \/ v = 0
    \/ \E i \in VersionRows(rows, d, v) :
          NormalizeRaises(rows[i][d]) \/ NormalizeRaises(rows[i][v])

\* VersionPairs with the stored version compared as written, not lower-cased.
VersionPairs_CaseKept(rows, d, v) ==
    {<<normalize_doc_number(rows[i][d]), normalize_version(rows[i][v])>> :
        i \in VersionRows(rows, d, v)}

\* The pairs of the rows kept, read at columns d and v.
VersionPairs(rows, d, v) ==
    {<<normalize_doc_number(rows[i][d]), Lower(normalize_version(rows[i][v]))>> :
        i \in VersionRows(rows, d, v)}

\* load_existing_versions raises: a header without the two columns, a header cell
\* that is no text, or a value the normalizers refuse.
LoadVersionsRaises(table) ==
    /\ table.exists
    /\ \/ \E i \in 1..Len(table.header) : table.header[i][1] = "dt"
       \/ VersionColumnsRaise(table.rows,
                              HeaderIndex(HeaderNames(table.header), H_DOCUMENT_NUMBER_1),
                              HeaderIndex(HeaderNames(table.header), H_VERSION))

\* load_existing_versions: the (document, lower-cased version) pairs of the history table.
load_existing_versions(table) ==
    IF ~table.exists THEN {}
    ELSE VersionPairs(table.rows,
                      HeaderIndex(HeaderNames(table.header), H_DOCUMENT_NUMBER_1),
                      HeaderIndex(HeaderNames(table.header), H_VERSION))

(* ------------------------------------------------------------------ *)
(* File matcher                                                         *)
(* ------------------------------------------------------------------ *)

\* "<directory name>.xlsx"
LogName(name) == name \o <<".", "x", "l", "s", "x">>

\* What iterdir() finds in a transmittal directory: its data files and its manifest.
Entries(dir) == dir.files \cup (IF dir.log.exists THEN {LogName(dir.name)} ELSE {})

\* find_matching_files: the sorted names, the manifest apart, whose lower-cased
\* form contains the document number.
find_matching_files(dir, doc_number) ==
    SortedSeq({e \in Entries(dir) : e # LogName(dir.name) /\ Contains(doc_number, Lower(e))})

(* ------------------------------------------------------------------ *)
(* Row validator                                                        *)
(* ------------------------------------------------------------------ *)

\* The outcome of one manifest row: a TransmittalRow, or the error that row raised.
RowError(kind) == [ok |-> FALSE, kind |-> kind]

TransmittalRow(raw, doc, ver, filenames) ==
    [ok |-> TRUE, raw |-> raw, normalized_doc |-> doc, normalized_version |-> ver,
     filenames |-> filenames]

\* The body of the loop with the date coerced before the duplicate check.
ValidateRow_DateFirst(raw, existing_versions, dir) ==
    IF \E field \in REQUIRED_FIELDS : IsEmptyValue(raw[Col(field)])
    THEN RowError("MissingRequiredField")
    ELSE IF NormalizeRaises(raw[Col(H_DOCUMENT_NUMBER_1)]) \/ NormalizeRaises(raw[Col(H_VERSION)])
    THEN RowError("EmptyField")
    ELSE IF CoerceDateRaises(raw[Col(H_DATE)])
    THEN RowError("InvalidDate")
    ELSE IF <<normalize_doc_number(raw[Col(H_DOCUMENT_NUMBER_1)]),
              Lower(normalize_version(raw[Col(H_VERSION)]))>> \in existing_versions
    THEN RowError("DuplicateVersion")
    ELSE TransmittalRow([raw EXCEPT ![Col(H_DATE)] = coerce_date(raw[Col(H_DATE)])],
                        normalize_doc_number(raw[Col(H_DOCUMENT_NUMBER_1)]),
                        normalize_version(raw[Col(H_VERSION)]),
                        find_matching_files(dir, normalize_doc_number(raw[Col(H_DOCUMENT_NUMBER_1)])))

\* The body of the loop over raw_rows in process_transmittal, for one row.
ValidateRow(raw, existing_versions, dir) ==
    IF \E field \in REQUIRED_FIELDS : IsEmptyValue(raw[Col(field)])
    THEN RowError("MissingRequiredField")
    ELSE IF NormalizeRaises(raw[Col(H_DOCUMENT_NUMBER_1)]) \/ NormalizeRaises(raw[Col(H_VERSION)])
    THEN RowError("EmptyField")
    ELSE LET normalized_doc == normalize_doc_number(raw[Col(H_DOCUMENT_NUMBER_1)])
             normalized_version == normalize_version(raw[Col(H_VERSION)])
             version_key == <<normalized_doc, Lower(normalized_version)>>
         IN  IF version_key \in existing_versions
             THEN RowError("DuplicateVersion")
             ELSE IF CoerceDateRaises(raw[Col(H_DATE)])
             THEN RowError("InvalidDate")
             ELSE TransmittalRow([raw EXCEPT ![Col(H_DATE)] = coerce_date(raw[Col(H_DATE)])],
                                 normalized_doc, normalized_version,
                                 find_matching_files(dir, normalized_doc))

\* The row loop adding the pair of each validated row to the index as it goes.
RECURSIVE ValidateRows_IndexUpdated(_, _, _)
ValidateRows_IndexUpdated(raw_rows, existing_versions, dir) ==
    IF raw_rows = <<>> THEN <<>>
    ELSE LET outcome == ValidateRow(Head(raw_rows), existing_versions, dir)
         IN  <<outcome>> \o ValidateRows_IndexUpdated(Tail(raw_rows),
                IF outcome.ok
                THEN existing_versions
                        \cup {<<outcome.normalized_doc, Lower(outcome.normalized_version)>>}
                ELSE existing_versions,
                dir)

\* One outcome per row read from the manifest, in row order.
ValidateRows(raw_rows, existing_versions, dir) ==
    Tuple([i \in 1..Len(raw_rows) |-> ValidateRow(raw_rows[i], existing_versions, dir)])

RECURSIVE SelectOutcomes(_, _)
SelectOutcomes(outcomes, ok) ==
    IF outcomes = <<>> THEN <<>>
    ELSE IF Head(outcomes).ok = ok
         THEN <<Head(outcomes)>> \o SelectOutcomes(Tail(outcomes), ok)
         ELSE SelectOutcomes(Tail(outcomes), ok)

(* ------------------------------------------------------------------ *)
(* Reconciliation writer                                                *)
(* ------------------------------------------------------------------ *)

\* "; "
FilenameSeparator == <<";", " ">>

\* append_to_database writing the new rows from the top of the sheet.
append_to_database_FromTop(table, rows) ==
    [ensure_workbook(table, DATABASE_HEADERS) EXCEPT !.rows =
            Tuple([i \in 1..Len(rows) |->
                rows[i].raw \o <<Str(Join(rows[i].filenames, FilenameSeparator))>>]) \o @]

\* append_to_database that opens the workbook and appends nothing.
append_to_database_Skipped(table, rows) == ensure_workbook(table, DATABASE_HEADERS)

\* append_to_database: one row per TransmittalRow, the 13 columns and the filenames.
append_to_database(table, rows) ==
    [ensure_workbook(table, DATABASE_HEADERS) EXCEPT !.rows = @ \o
            Tuple([i \in 1..Len(rows) |->
                rows[i].raw \o <<Str(Join(rows[i].filenames, FilenameSeparator))>>])]

\* A list of records in place of the dict: every record is added.
DictPut_Appends(items, key, record) == Append(items, [key |-> key, record |-> record])

\* existing[key] = record, on a dict kept as the sequence of its items in insertion order.
DictPut(items, key, record) ==
    IF \E i \in 1..Len(items) : items[i].key = key
    THEN Tuple([i \in 1..Len(items) |->
            IF items[i].key = key THEN [key |-> key, record |-> record] ELSE items[i]])
    ELSE Append(items, [key |-> key, record |-> record])

\* The first loop of update_document_list: the stored rows, keyed by document.
RECURSIVE LoadDocumentList(_, _, _)
LoadDocumentList(names, rows, items) ==
    IF rows = <<>> THEN items
    ELSE IF \A i \in 1..Len(Head(rows)) : IsBlankCell(Head(rows)[i])
         THEN LoadDocumentList(names, Tail(rows), items)
         ELSE LET record == RowRecord(names, Head(rows))
              IN  LoadDocumentList(names, Tail(rows),
                      DictPut(items, normalize_doc_number(record[Col(H_DOCUMENT_NUMBER_1)]), record))

\* The second loop run for the last row of the transmittal alone.
MergeRows_LastRowOnly(items, rows) ==
    IF rows = <<>> THEN items
    ELSE DictPut(items, rows[Len(rows)].normalized_doc, rows[Len(rows)].raw)

\* The second loop with setdefault: a document's first entry stays.
RECURSIVE MergeRows_KeepFirst(_, _)
MergeRows_KeepFirst(items, rows) ==
    IF rows = <<>> THEN items
    ELSE IF \E i \in 1..Len(items) : items[i].key = Head(rows).normalized_doc
         THEN MergeRows_KeepFirst(items, Tail(rows))
         ELSE MergeRows_KeepFirst(DictPut(items, Head(rows).normalized_doc, Head(rows).raw),
                                  Tail(rows))

\* The second loop: each new row replaces its document's entry.
RECURSIVE MergeRows(_, _)
MergeRows(items, rows) ==
    IF rows = <<>> THEN items
    ELSE MergeRows(DictPut(items, Head(rows).normalized_doc, Head(rows).raw), Tail(rows))

\* update_document_list raises on a stored row without a document number.
UpdateDocumentListRaises(table) ==
    \/ EnsureWorkbookRaises(table, EXPECTED_HEADERS)
    \/ /\ table.exists
       /\ \E i \in 1..Len(table.rows) :
            /\ \E j \in 1..Len(table.rows[i]) : ~IsBlankCell(table.rows[i][j])
            /\ NormalizeRaises(RowRecord(HeaderNames(table.header), table.rows[i])[Col(H_DOCUMENT_NUMBER_1)])

\* existing.values(): the records of the dict, in its order.
Records(items) == Tuple([i \in 1..Len(items) |-> items[i].record])

\* update_document_list: the table rewritten from the merged dict.
update_document_list(table, rows) ==
    [ensure_workbook(table, EXPECTED_HEADERS) EXCEPT !.rows =
        Records(MergeRows(LoadDocumentList(HeaderNames(ensure_workbook(table, EXPECTED_HEADERS).header),
                                           table.rows, <<>>),
                          rows))]

(* ------------------------------------------------------------------ *)
(* Transmittal relocator                                                *)
(* ------------------------------------------------------------------ *)

EntryNames(root) == {e.name : e \in root}

\* The while loop of move_transmittal, entered with the candidate taken.
RECURSIVE SuffixedName(_, _, _)
SuffixedName(name, root, counter) ==
    LET candidate == name \o <<"-">> \o DigitText(counter)
    IN  IF candidate \in EntryNames(root)
        THEN SuffixedName(name, root, counter + 1)
        ELSE candidate

\* move_transmittal without the collision loop: the directory keeps its name.
FreeName_Overwrites(name, root) == name

\* The name move_transmittal gives the directory in the destination root.
FreeName(name, root) ==
    IF name \in EntryNames(root) THEN SuffixedName(name, root, 1) ELSE name

\* move_transmittal: the destination root with the directory under its free name.
move_transmittal(dir, root) ==
    root \cup {[name |-> FreeName(dir.name, root), id |-> dir.id]}

(* ------------------------------------------------------------------ *)
(* Current-files synchronizer                                           *)
(* ------------------------------------------------------------------ *)

\* The inner loop over row.filenames: a listed file still in the directory is
\* copied over whatever the mirror holds under that name.
RECURSIVE CopyFiles(_, _, _)
CopyFiles(current, dir, filenames) ==
    IF filenames = <<>> THEN current
    ELSE IF Head(filenames) \notin Entries(dir)
         THEN CopyFiles(current, dir, Tail(filenames))
         ELSE CopyFiles({f \in current : f.name # Head(filenames)}
                            \cup {[name |-> Head(filenames), id |-> dir.id]},
                        dir, Tail(filenames))

\* sync_current_files without the cleanup of the mirror.
RECURSIVE SyncRows_NoCleanup(_, _, _, _)
SyncRows_NoCleanup(current, dir, rows, processed_docs) ==
    IF rows = <<>> THEN current
    ELSE SyncRows_NoCleanup(CopyFiles(current, dir, Head(rows).filenames), dir, Tail(rows),
                            processed_docs \cup {Head(rows).normalized_doc})

\* The loop of sync_current_files over the rows.
RECURSIVE SyncRows(_, _, _, _)
SyncRows(current, dir, rows, processed_docs) ==
    IF rows = <<>> THEN current
    ELSE LET doc_key == Head(rows).normalized_doc
             cleaned == IF doc_key \in processed_docs THEN current
                        ELSE {f \in current : ~Contains(doc_key, Lower(f.name))}
         IN  SyncRows(CopyFiles(cleaned, dir, Head(rows).filenames), dir, Tail(rows),
                      processed_docs \cup {doc_key})

sync_current_files(current, dir, rows) == SyncRows(current, dir, rows, {})

\* The inner loop when shutil.copy2 may raise: it raises on the first listed file,
\* still in the directory, whose copy fails, and the mirror stays as it is by then.
RECURSIVE CopyFilesOrRaise(_, _, _, _)
CopyFilesOrRaise(mirror, dir, filenames, unwritable) ==
    IF filenames = <<>> THEN [current |-> mirror, raised |-> FALSE]
    ELSE IF Head(filenames) \notin Entries(dir)
         THEN CopyFilesOrRaise(mirror, dir, Tail(filenames), unwritable)
         ELSE IF Head(filenames) \in unwritable
              THEN [current |-> mirror, raised |-> TRUE]
              ELSE CopyFilesOrRaise({f \in mirror : f.name # Head(filenames)}
                                        \cup {[name |-> Head(filenames), id |-> dir.id]},
                                    dir, Tail(filenames), unwritable)

\* The loop of sync_current_files on a file system that fails: the unlink of a
\* locked file fails and is logged, the file stays; a copy that fails raises.
RECURSIVE SyncRowsOrRaise(_, _, _, _, _, _)
SyncRowsOrRaise(mirror, dir, rows, processed_docs, locked, unwritable) ==
    IF rows = <<>> THEN [current |-> mirror, raised |-> FALSE]
    ELSE LET doc_key == Head(rows).normalized_doc
             cleaned == IF doc_key \in processed_docs THEN mirror
                        ELSE {f \in mirror : ~Contains(doc_key, Lower(f.name)) \/ f.name \in locked}
             copied == CopyFilesOrRaise(cleaned, dir, Head(rows).filenames, unwritable)
         IN  IF copied.raised THEN copied
             ELSE SyncRowsOrRaise(copied.current, dir, Tail(rows),
                                  processed_docs \cup {doc_key}, locked, unwritable)

(* ------------------------------------------------------------------ *)
(* Inputs: the transmittals an engineer may submit                      *)
(* ------------------------------------------------------------------ *)

\* Directory names.
TransmittalNames == {<<"X">>, <<"Y">>}

\* The data files a directory of that name holds: X "a1", Y "a2" and "Ab".
FilesOf(name) == IF name = <<"X">> THEN {<<"a", "1">>} ELSE {<<"a", "2">>, <<"A", "b">>}

\* A header row that normalizes to the transmittal schema (TITLE is written " title;").
HeaderOk ==
    Tuple([i \in 1..Len(EXPECTED_HEADERS) |->
        IF EXPECTED_HEADERS[i] = H_TITLE THEN Str(<<" ", "t", "i", "t", "l", "e", ";">>)
        ELSE Str(EXPECTED_HEADERS[i])])

\* A header row without the TITLE column.
HeaderNoTitle ==
    Tuple([i \in 1..(Len(EXPECTED_HEADERS) - 1) |->
        Str(EXPECTED_HEADERS[IF i < Col(H_TITLE) THEN i ELSE i + 1])])

\* A header row with an empty cell.
HeaderEmptyCell == [HeaderOk EXCEPT ![Col(H_TRANSMITTAL_NAME)] = NoneV]

BlankRow == Tuple([i \in 1..Len(EXPECTED_HEADERS) |-> NoneV])

\* A manifest row of transmittal number tn, in the order of the schema.
ManifestRow(tn, doc, ver, date, title) ==
    Tuple([i \in 1..Len(EXPECTED_HEADERS) |->
        IF i = Col(H_TRANSMITTAL_NUMBER) THEN Str(DigitText(tn))
        ELSE IF i = Col(H_ITEM) THEN Str(<<"i">>)
        ELSE IF i = Col(H_DOCUMENT_NUMBER_1) THEN doc
        ELSE IF i = Col(H_VERSION) THEN ver
        ELSE IF i = Col(H_DATE) THEN date
        ELSE IF i = Col(H_TITLE) THEN title
        ELSE NoneV])

\* The rows a manifest is made of: document "a" version "b"; the same pair written
\* "A " / " B" with an earlier date; document "ab" with a text date; document "a"
\* version "1" with an earlier date; an unparseable date; a blank version; a blank row.
RowChoices(tn) ==
    { ManifestRow(tn, Str(<<"a">>), Str(<<"b">>), Dt(2), Str(<<"t">>)),
      ManifestRow(tn, Str(<<"A", " ">>), Str(<<" ", "B">>), Dt(1), Str(<<"t">>)),
      ManifestRow(tn, Str(<<"a", "b">>), Str(<<"b">>), Str(<<"2">>), Str(<<"t">>)),
      ManifestRow(tn, Str(<<"a">>), Str(<<"1">>), Dt(1), Str(<<"t">>)),
      ManifestRow(tn, Str(<<"a">>), Str(<<"b">>), Str(<<"x">>), Str(<<"t">>)),
      ManifestRow(tn, Str(<<"a", "b">>), Str(<<" ">>), Dt(2), Str(<<"t">>)),
      BlankRow }

SeqsUpTo(S, n) == UNION {[1..k -> S] : k \in 0..n}

NoLog == [exists |-> FALSE, header |-> <<>>, rows |-> <<>>]

\* The manifests of transmittal tn: none, a row under an unreadable header, or up
\* to MaxRows rows.
Manifests(tn) ==
    {NoLog} \cup {[exists |-> TRUE, header |-> header,
                   rows |-> <<ManifestRow(tn, Str(<<"a">>), Str(<<"b">>), Dt(2), Str(<<"t">>))>>] :
                        header \in {HeaderNoTitle, HeaderEmptyCell}}
    \cup {[exists |-> TRUE, header |-> HeaderOk, rows |-> rows] :
            rows \in SeqsUpTo(RowChoices(tn), MaxRows)}

(* ------------------------------------------------------------------ *)
(* State                                                                *)
(* ------------------------------------------------------------------ *)

VARIABLES
    pending,            \* "Pending Transmittals": directories [name, id, log, files]
    accepted,           \* "Accepted Transmittals": entries [name, id]
    rejected,           \* "Rejected Transmittals": entries [name, id]
    database,           \* Reports/transmittal_database.xlsx, the history table
    doc_list,           \* Reports/document_list.xlsx, the latest-version index
    current,            \* "Current Files": files [name, id], id the transmittal copied from
    pc,                 \* where the run is
    transmittals,       \* process_project: the names found pending when the run began
    queue,              \* process_project: the sorted names still to process
    transmittal,        \* process_transmittal: the directory being processed
    existing_versions,  \* process_transmittal: the version history index
    processed_rows,     \* process_transmittal: the validated rows
    errors,             \* process_transmittal: the row errors [idx, kind]
    result,             \* how the last process_transmittal ended, and why
    submitted           \* directories submitted so far

vars == <<pending, accepted, rejected, database, doc_list, current, pc, transmittals,
          queue, transmittal, existing_versions, processed_rows, errors, result, submitted>>

stores == <<database, doc_list, current>>

locals == <<transmittal, existing_versions, processed_rows, errors>>

NoTransmittal == [name |-> <<>>, id |-> 0, log |-> NoLog, files |-> {}]

NoResult == [outcome |-> "none", reason |-> "none"]

\* The project before the run: the reports as stored, an empty mirror, and a
\* "Rejected Transmittals" that holds a directory X from an earlier run.
Start(stored_database, stored_doc_list) ==
    /\ pending = {}
    /\ accepted = {}
    /\ rejected = {[name |-> <<"X">>, id |-> 0]}
    /\ database = stored_database
    /\ doc_list = stored_doc_list
    /\ current = {}
    /\ pc = "idle"
    /\ transmittals = {}
    /\ queue = <<>>
    /\ transmittal = NoTransmittal
    /\ existing_versions = {}
    /\ processed_rows = <<>>
    /\ errors = <<>>
    /\ result = NoResult
    /\ submitted = 0

\* A workbook with that header row and no data row.
EmptyTable(headers) ==
    [exists |-> TRUE, header |-> Tuple([i \in 1..Len(headers) |-> Str(headers[i])]),
     rows |-> <<>>]

\* A project that has no report yet, or one of whose reports was saved with the
\* header row of the other.
Init ==
    \/ Start(NoTable, NoTable)
    \/ Start(EmptyTable(EXPECTED_HEADERS), NoTable)
    \/ Start(NoTable, EmptyTable(DATABASE_HEADERS))

\* A document_list.xlsx edited by hand: two rows for the document "a".
StoredDocList ==
    [EmptyTable(EXPECTED_HEADERS) EXCEPT !.rows =
        <<ManifestRow(0, Str(<<"a">>), Str(<<"c">>), Dt(1), Str(<<"t">>)),
          ManifestRow(0, Str(<<"A", " ">>), Str(<<"d">>), Dt(2), Str(<<"t">>))>>]

InitStored == Start(NoTable, StoredDocList)

(* ------------------------------------------------------------------ *)
(* Operations                                                           *)
(* ------------------------------------------------------------------ *)

\* An engineer drops a transmittal directory under "Pending Transmittals"
\* (between runs: the script assumes a single writer).
Submit ==
    /\ pc = "idle"
    /\ submitted < MaxTransmittals
    /\ Cardinality(pending) < MaxPending
    /\ \E name \in TransmittalNames \ {d.name : d \in pending},
          log \in Manifests(submitted + 1) :
            pending' = pending \cup
                {[name |-> name, id |-> submitted + 1, log |-> log, files |-> FilesOf(name)]}
    /\ submitted' = submitted + 1
    /\ UNCHANGED <<accepted, rejected, stores, pc, transmittals, queue, locals, result>>

\* process_project up to its loop: the pending directories, sorted by name.
StartRun ==
    /\ pc = "idle"
    /\ pending # {}
    /\ transmittals' = {d.name : d \in pending}
    /\ queue' = SortedSeq({d.name : d \in pending})
    /\ pc' = "loop"
    /\ UNCHANGED <<pending, accepted, rejected, stores, locals, result, submitted>>

\* The except branches of process_transmittal: log, move to the rejected root, return.
Reject(dir, reason) ==
    /\ rejected' = move_transmittal(dir, rejected)
    /\ pending' = pending \ {dir}
    /\ result' = [outcome |-> "rejected", reason |-> reason]
    /\ pc' = "loop"
    /\ UNCHANGED <<accepted, stores>>

\* The rows that validated, in row order (processed_rows).
ProcessedRows(outcomes) == SelectOutcomes(outcomes, TRUE)

\* The row loop leaving at the first row that fails: one error at most.
RECURSIVE RowErrors_FirstOnly(_, _)
RowErrors_FirstOnly(outcomes, idx) ==
    IF outcomes = <<>> THEN <<>>
    ELSE IF Head(outcomes).ok THEN RowErrors_FirstOnly(Tail(outcomes), idx + 1)
    ELSE <<[idx |-> idx, kind |-> Head(outcomes).kind]>>

\* The errors of the rows that did not, in row order (errors): manifest row idx is
\* sheet row idx + 1.
RECURSIVE RowErrors(_, _)
RowErrors(outcomes, idx) ==
    IF outcomes = <<>> THEN <<>>
    ELSE IF Head(outcomes).ok THEN RowErrors(Tail(outcomes), idx + 1)
    ELSE <<[idx |-> idx, kind |-> Head(outcomes).kind]>> \o RowErrors(Tail(outcomes), idx + 1)

\* Decision with the test of errors left out: valid rows are enough.
Decision_ErrorsIgnored(valid, errs) ==
    IF valid = <<>> THEN "NoValidRows" ELSE "Accepted"

\* Decision with the test of processed_rows left out: no error is enough.
Decision_EmptyAccepted(valid, errs) ==
    IF errs # <<>> THEN "ValidationErrors" ELSE "Accepted"

\* The decision of process_transmittal once every row is validated.
Decision(valid, errs) ==
    IF valid = <<>> THEN "NoValidRows"
    ELSE IF errs # <<>> THEN "ValidationErrors"
    ELSE "Accepted"

\* process_transmittal up to its decision: the manifest is looked for, the version
\* history index is loaded, the manifest is read and every row validated; a
\* rejected transmittal is moved at once.
ProcessTransmittal ==
    /\ pc = "loop"
    /\ queue # <<>>
    /\ \E dir \in {d \in pending : d.name = Head(queue)} :
        /\ transmittal' = dir
        /\ queue' = Tail(queue)
        /\ IF ~dir.log.exists
           THEN /\ Reject(dir, "MissingManifest")
                /\ existing_versions' = {}
                /\ processed_rows' = <<>>
                /\ errors' = <<>>
           ELSE IF LoadVersionsRaises(database)
           THEN /\ pc' = "crashed"
                /\ result' = [outcome |-> "crashed", reason |-> "HeaderMismatch"]
                /\ existing_versions' = {}
                /\ processed_rows' = <<>>
                /\ errors' = <<>>
                /\ UNCHANGED <<pending, accepted, rejected, stores>>
           ELSE /\ existing_versions' = load_existing_versions(database)
                /\ IF ReadSheetRaises(dir.log)
                   THEN /\ Reject(dir, "ManifestHeader")
                        /\ processed_rows' = <<>>
                        /\ errors' = <<>>
                   ELSE \E raw_rows \in {read_sheet_rows(dir.log)} :
                        \E outcomes \in {ValidateRows(raw_rows, existing_versions', dir)} :
                            /\ processed_rows' = ProcessedRows(outcomes)
                            /\ errors' = RowErrors(outcomes, 2)
                            /\ IF Decision(processed_rows', errors') = "Accepted"
                               THEN /\ pc' = "append"
                                    /\ result' = NoResult
                                    /\ UNCHANGED <<pending, accepted, rejected, stores>>
                               ELSE Reject(dir, Decision(processed_rows', errors'))
    /\ UNCHANGED <<transmittals, submitted>>

\* An exception that leaves process_transmittal ends the run.
Crash ==
    /\ pc' = "crashed"
    /\ result' = [outcome |-> "crashed", reason |-> "HeaderMismatch"]
    /\ UNCHANGED <<pending, accepted, rejected, stores, transmittals, queue, locals, submitted>>

\* append_to_database(project_paths["database"], processed_rows)
AppendToDatabase ==
    /\ pc = "append"
    /\ IF EnsureWorkbookRaises(database, DATABASE_HEADERS) THEN Crash
       ELSE /\ database' = append_to_database(database, processed_rows)
            /\ pc' = "doc_list"
            /\ UNCHANGED <<pending, accepted, rejected, doc_list, current, transmittals,
                           queue, locals, result, submitted>>

\* update_document_list(project_paths["doc_list"], processed_rows)
UpdateDocumentList ==
    /\ pc = "doc_list"
    /\ IF UpdateDocumentListRaises(doc_list) THEN Crash
       ELSE /\ doc_list' = update_document_list(doc_list, processed_rows)
            /\ pc' = "sync"
            /\ UNCHANGED <<pending, accepted, rejected, database, current, transmittals,
                           queue, locals, result, submitted>>

\* sync_current_files(project_paths["current"], transmittal_dir, processed_rows, logger)
SyncCurrentFiles ==
    /\ pc = "sync"
    /\ current' = sync_current_files(current, transmittal, processed_rows)
    /\ pc' = "move"
    /\ UNCHANGED <<pending, accepted, rejected, database, doc_list, transmittals,
                   queue, locals, result, submitted>>

\* move_transmittal(transmittal_dir, project_paths["accepted"])
MoveAccepted ==
    /\ pc = "move"
    /\ accepted' = move_transmittal(transmittal, accepted)
    /\ pending' = pending \ {transmittal}
    /\ result' = [outcome |-> "accepted", reason |-> "none"]
    /\ pc' = "loop"
    /\ UNCHANGED <<rejected, stores, transmittals, queue, locals, submitted>>

\* The loop of process_project is over: the run ends.
EndRun ==
    /\ pc = "loop"
    /\ queue = <<>>
    /\ pc' = "idle"
    /\ transmittals' = {}
    /\ transmittal' = NoTransmittal
    /\ existing_versions' = {}
    /\ processed_rows' = <<>>
    /\ errors' = <<>>
    /\ result' = NoResult
    /\ UNCHANGED <<pending, accepted, rejected, stores, queue, submitted>>

\* The steps of one run of the script.
Run ==
    \/ StartRun
    \/ ProcessTransmittal
    \/ AppendToDatabase
    \/ UpdateDocumentList
    \/ SyncCurrentFiles
    \/ MoveAccepted
    \/ EndRun

Next == Submit \/ Run

Spec == Init /\ [][Next]_vars

\* The runs over a project whose latest-version index holds duplicate keys.
StoredSpec == InitStored /\ [][Next]_vars

\* No file, or one of the files.
AtMostOne(names) == {{}} \cup {{n} : n \in names}

\* sync_current_files on a file system that may fail: the mirrored files are
\* locked against unlink or not, a file of the directory may have vanished since
\* it was matched, and the copy of a file may fail. The exception of a failed copy
\* leaves process_transmittal.
SyncCurrentFilesOrRaise ==
    /\ pc = "sync"
    /\ \E locked \in {{}, EntryNames(current)},
          missing \in AtMostOne(transmittal.files),
          unwritable \in AtMostOne(transmittal.files) :
        \E synced \in {SyncRowsOrRaise(current, [transmittal EXCEPT !.files = @ \ missing],
                                       processed_rows, {}, locked, unwritable)} :
            /\ current' = synced.current
            /\ IF synced.raised
               THEN /\ pc' = "crashed"
                    /\ result' = [outcome |-> "crashed", reason |-> "CopyFailed"]
               ELSE /\ pc' = "move"
                    /\ result' = result
    /\ UNCHANGED <<pending, accepted, rejected, database, doc_list, transmittals,
                   queue, locals, submitted>>

\* The steps of one run of the script on a file system that may fail.
RunOrRaise ==
    \/ StartRun
    \/ ProcessTransmittal
    \/ AppendToDatabase
    \/ UpdateDocumentList
    \/ SyncCurrentFilesOrRaise
    \/ MoveAccepted
    \/ EndRun

NextOrRaise == Submit \/ RunOrRaise

\* A project that has no report yet.
InitEmpty == Start(NoTable, NoTable)

\* The runs, from a project without reports, on a file system that may fail.
FaultSpec == InitEmpty /\ [][NextOrRaise]_vars

(* ------------------------------------------------------------------ *)
(* Properties                                                           *)
(* ------------------------------------------------------------------ *)

\* The transmittals that own the entries of a root.
Ids(root) == {e.id : e \in root}

\* A step in which process_transmittal takes the next directory of the queue.
Processes == pc = "loop" /\ queue # <<>> /\ queue' = Tail(queue)

\* The manifest of the directory is there and its header is the transmittal schema.
Readable(dir) == dir.log.exists /\ ~ReadSheetRaises(dir.log)

\* The rows of the manifest that are not blank, in sheet order.
ManifestRows(dir) == IF Readable(dir) THEN read_sheet_rows(dir.log) ELSE <<>>

\* The positions of the rows that fail a check of the validation loop.
FailingRows(rows, versions, dir) ==
    {i \in 1..Len(rows) : ~ValidateRow(rows[i], versions, dir).ok}

\* "valid": the manifest has a row and every row validates against the history
\* table; "failing": a row fails; "empty": no row that is not blank; "unreadable".
Verdict(dir, table) ==
    IF ~Readable(dir) THEN "unreadable"
    ELSE IF ManifestRows(dir) = <<>> THEN "empty"
    ELSE IF FailingRows(ManifestRows(dir), load_existing_versions(table), dir) # {} THEN "failing"
    ELSE "valid"

\* The (trimmed lower-cased document, trimmed lower-cased version) pair of a row.
RowKey(raw) ==
    <<Lower(Strip(PyStr(raw[Col(H_DOCUMENT_NUMBER_1)]))), Lower(Strip(PyStr(raw[Col(H_VERSION)])))>>

\* The pairs of the rows of the history table.
HistoryPairs(table) == {RowKey(table.rows[i]) : i \in 1..Len(table.rows)}

\* The transmittal number a row carries.
RowTransmittal(raw) == raw[Col(H_TRANSMITTAL_NUMBER)]

\* C1: all-or-nothing rejection. The step that processes a transmittal whose
\* manifest has a row that fails validation appends nothing to the history table,
\* changes neither the latest-version index nor the Current Files mirror, and moves
\* the directory under the rejected root.
C1_AllOrNothingRejection ==
    [][(Processes /\ Verdict(transmittal', database) = "failing")
        => /\ database' = database
           /\ doc_list' = doc_list
           /\ current' = current
           /\ accepted' = accepted
           /\ pending' = pending \ {transmittal'}
           /\ Ids(rejected') = Ids(rejected) \cup {transmittal'.id}
           /\ pc' = "loop"]_vars

\* C1 witness: a manifest of two rows, one valid and one with an empty required
\* field, was rejected and its directory is under the rejected root.
C1_Witness ==
    /\ pc = "loop"
    /\ result = [outcome |-> "rejected", reason |-> "ValidationErrors"]
    /\ Len(processed_rows) = 1
    /\ errors = <<[idx |-> 3, kind |-> "MissingRequiredField"]>>
    /\ transmittal.id \in Ids(rejected)
    /\ transmittal \notin pending

\* C2: process_transmittal takes a transmittal to its accepted path if and only if
\* the manifest is readable with a valid header, at least one row validates and no
\* row fails; otherwise the transmittal is rejected, with NoValidRows when the
\* readable manifest has no row that is not blank; and a directory enters the
\* accepted root only from that path, with validated rows and no error.
C2_AcceptedIff ==
    [][/\ Processes =>
            /\ (pc' = "append") <=> (Verdict(transmittal', database) = "valid")
            /\ (pc' # "append") =>
                    /\ result'.outcome = "rejected"
                    /\ transmittal'.id \in Ids(rejected')
            /\ (Verdict(transmittal', database) = "empty") => result'.reason = "NoValidRows"
       /\ (accepted' # accepted) =>
            /\ pc = "move"
            /\ processed_rows # <<>>
            /\ errors = <<>>
            /\ Ids(accepted') = Ids(accepted) \cup {transmittal.id}]_vars

\* C2 witness: a manifest of a blank row and a valid row was accepted.
C2_Witness ==
    /\ result.outcome = "accepted"
    /\ transmittal.id \in Ids(accepted)
    /\ Len(transmittal.log.rows) = 2
    /\ BlankRow \in Range(transmittal.log.rows)
    /\ Len(processed_rows) = 1

\* The positions of the rows with their required fields present and their pair
\* among the pairs.
KnownRows(rows, pairs) ==
    {i \in 1..Len(rows) :
        /\ \A field \in REQUIRED_FIELDS : ~IsEmptyValue(rows[i][Col(field)])
        /\ RowKey(rows[i]) \in pairs}

\* C3: when a transmittal is accepted, no pair of its rows is in the history table
\* as it stood when its rows were validated; and a manifest row with its required
\* fields present whose pair is in the history table, whatever the case and the
\* surrounding blanks it is written with, is reported as DuplicateVersion and its
\* transmittal is rejected.
C3_KnownPairRejected ==
    /\ pc = "append" =>
            \A i \in 1..Len(ManifestRows(transmittal)) :
                RowKey(ManifestRows(transmittal)[i]) \notin HistoryPairs(database)
    /\ (pc = "loop" /\ result.outcome = "rejected") =>
            \A i \in KnownRows(ManifestRows(transmittal), HistoryPairs(database)) :
                [idx |-> i + 1, kind |-> "DuplicateVersion"] \in Range(errors)

\* C3 witness: the pair stored as document "a", version "b" came back written
\* "A " and " B"; the row was reported as DuplicateVersion and the transmittal rejected.
C3_Witness ==
    /\ pc = "loop"
    /\ result = [outcome |-> "rejected", reason |-> "ValidationErrors"]
    /\ \E i \in 1..Len(database.rows) :
            /\ database.rows[i][Col(H_DOCUMENT_NUMBER_1)] = Str(<<"a">>)
            /\ database.rows[i][Col(H_VERSION)] = Str(<<"b">>)
    /\ \E i \in 1..Len(ManifestRows(transmittal)) :
            /\ ManifestRows(transmittal)[i][Col(H_DOCUMENT_NUMBER_1)] = Str(<<"A", " ">>)
            /\ ManifestRows(transmittal)[i][Col(H_VERSION)] = Str(<<" ", "B">>)
            /\ [idx |-> i + 1, kind |-> "DuplicateVersion"] \in Range(errors)

\* C4: each (normalized document, case-folded version) pair appears in at most one
\* row of the history table, in every state reached from an empty history table.
C4_PairOnceInHistory ==
    \A i, j \in 1..Len(database.rows) :
        RowKey(database.rows[i]) = RowKey(database.rows[j]) => i = j

\* The normalized document identifier a row is about.
DocKey(raw) == Lower(Strip(PyStr(raw[Col(H_DOCUMENT_NUMBER_1)])))

\* The names of the data files of the directory that contain the identifier, sorted.
MatchedNames(dir, doc) == SortedSeq({n \in dir.files : Contains(doc, Lower(n))})

\* The history row of a manifest row: its 13 cells, the date as a datetime, and
\* the matched file names joined by "; ".
HistoryRow(raw, dir) ==
    [raw EXCEPT ![Col(H_DATE)] = coerce_date(@)]
        \o <<Str(Join(MatchedNames(dir, DocKey(raw)), <<";", " ">>))>>

HistoryRows(rows, dir) == Tuple([i \in 1..Len(rows) |-> HistoryRow(rows[i], dir)])

\* C5: the history table is append-only. Every step leaves the rows it held in
\* place as a prefix and the header of a stored table as it was; the append of an
\* accepted transmittal adds one row per manifest row, in manifest order, each with
\* the matched file names joined by the separator; every other step, a rejection
\* included, leaves its rows as they were.
C5_HistoryAppendOnly ==
    [][/\ Len(database.rows) <= Len(database'.rows)
       /\ SubSeq(database'.rows, 1, Len(database.rows)) = database.rows
       /\ database.exists => database'.header = database.header
       /\ IF pc = "append" /\ pc' = "doc_list"
          THEN database'.rows =
                    database.rows \o HistoryRows(ManifestRows(transmittal), transmittal)
          ELSE database'.rows = database.rows]_vars

\* C5 witness: the second accepted transmittal has added its row after the row of
\* the first, with its two matched files in the filenames cell.
C5_Witness ==
    /\ pc = "doc_list"
    /\ Len(database.rows) >= 2
    /\ RowTransmittal(database.rows[1]) = Str(DigitText(1))
    /\ RowTransmittal(database.rows[Len(database.rows)]) = Str(DigitText(2))
    /\ database.rows[Len(database.rows)][Len(DATABASE_HEADERS)]
            = Str(<<"A", "b", ";", " ", "a", "2">>)

\* The normalized document identifiers of the rows.
DocKeys(rows) == {DocKey(rows[i]) : i \in 1..Len(rows)}

\* The positions of the rows about the document.
RowsOf(rows, doc) == {i \in 1..Len(rows) : DocKey(rows[i]) = doc}

\* C6: when update_document_list has written the latest-version index, the index
\* holds exactly one row for each normalized document identifier it held before or
\* the transmittal has a row for, also when the stored index held several rows for
\* one identifier or the transmittal has several rows for one document.
C6_OneRowPerDocument ==
    [][(pc = "doc_list" /\ pc' = "sync") =>
          /\ DocKeys(doc_list'.rows) =
                DocKeys(doc_list.rows) \cup DocKeys(ManifestRows(transmittal))
          /\ \A doc \in DocKeys(doc_list'.rows) :
                Cardinality(RowsOf(doc_list'.rows, doc)) = 1]_vars

\* C6 witness: the stored index held two rows for the document "a", the transmittal
\* has two rows for it, and the index written holds one.
C6_Witness ==
    /\ pc = "sync"
    /\ Len(processed_rows) = 2
    /\ DocKeys(ManifestRows(transmittal)) = {<<"a">>}
    /\ Cardinality(RowsOf(StoredDocList.rows, <<"a">>)) = 2
    /\ Len(doc_list.rows) = 1
    /\ accepted = {}

\* The last of a non-empty set of positions.
Last(positions) == CHOOSE i \in positions : \A j \in positions : j <= i

\* The row of the index for the document is the last row the transmittal has for it.
HoldsLastRow(index_rows, rows, doc) ==
    \A i \in RowsOf(index_rows, doc) :
        index_rows[i] = [rows[Last(RowsOf(rows, doc))] EXCEPT ![Col(H_DATE)] = coerce_date(@)]

\* C7: last accepted wins. When an accepted transmittal is merged, the index holds
\* for each document of the transmittal one row, the last row the transmittal has
\* for that document, whatever the dates and versions of the row it held before.
C7_LastAcceptedWins ==
    [][(pc = "doc_list" /\ pc' = "sync") =>
          \A doc \in DocKeys(ManifestRows(transmittal)) :
              /\ Cardinality(RowsOf(doc_list'.rows, doc)) = 1
              /\ HoldsLastRow(doc_list'.rows, ManifestRows(transmittal), doc)]_vars

\* C7 witness: transmittal 1 was accepted with document "a" dated 2, transmittal 2
\* with document "a" dated 1, and the index holds the row of transmittal 2.
C7_Witness ==
    /\ pc = "sync"
    /\ transmittal.id = 2
    /\ \E i \in RowsOf(database.rows, <<"a">>) :
            /\ RowTransmittal(database.rows[i]) = Str(DigitText(1))
            /\ database.rows[i][Col(H_DATE)] = Dt(2)
    /\ \E i \in RowsOf(doc_list.rows, <<"a">>) :
            /\ RowTransmittal(doc_list.rows[i]) = Str(DigitText(2))
            /\ doc_list.rows[i][Col(H_DATE)] = Dt(1)
    /\ Cardinality(RowsOf(doc_list.rows, <<"a">>)) = 1

\* process_project is over: its loop is through, or an exception has ended it.
RunOver == pc = "crashed" \/ (pc = "loop" /\ queue = <<>>)

\* The directories the run has taken up and not moved out of the pending location.
LeftPending == {d \in pending : d.name \in transmittals /\ d.name \notin Range(queue)}

\* C8: every transmittal whose processing starts is moved under the accepted or
\* the rejected root and not left pending: when process_project is over, no
\* directory it has taken up is still under "Pending Transmittals".
C8_NoneLeftPending == RunOver => LeftPending = {}

\* name-k
Suffixed(name, k) == name \o <<"-">> \o DigitText(k)

\* The move of a directory of that name took the root from old to new: what was
\* there is still there, and the one entry added bears the name if it was free,
\* else name-k for the least k >= 1 whose name-k was free.
MovedWithoutOverwrite(old, new, name) ==
    /\ old \subseteq new
    /\ Cardinality(EntryNames(new)) = Cardinality(new)
    /\ \E e \in new \ old :
        /\ new = old \cup {e}
        /\ e.name \notin EntryNames(old)
        /\ IF name \notin EntryNames(old) THEN e.name = name
           ELSE \E k \in 1..9 :
                    /\ e.name = Suffixed(name, k)
                    /\ \A j \in 1..(k - 1) : Suffixed(name, j) \in EntryNames(old)

\* C9: move_transmittal never overwrites. Every step that changes the accepted or
\* the rejected root keeps the entries the root held and adds the directory under
\* its own name X if that is free, else under X-k for the smallest k >= 1 such
\* that X-k is free.
C9_MoveNeverOverwrites ==
    [][/\ rejected' # rejected => MovedWithoutOverwrite(rejected, rejected', transmittal'.name)
       /\ accepted' # accepted => MovedWithoutOverwrite(accepted, accepted', transmittal'.name)
       /\ (pending' # pending /\ pc # "idle") => (rejected' # rejected) # (accepted' # accepted)]_vars

\* C9 witness: the rejected root held X; two more directories named X were
\* rejected, and the root holds X, X-1 and X-2.
C9_Witness ==
    /\ [name |-> <<"X">>, id |-> 0] \in rejected
    /\ [name |-> <<"X", "-", "1">>, id |-> 1] \in rejected
    /\ [name |-> <<"X", "-", "2">>, id |-> 2] \in rejected

\* The mirrored files whose lower-cased name contains the identifier.
MirroredFor(doc) == {f \in current : Contains(doc, Lower(f.name))}

\* The data files of the directory whose lower-cased name contains the identifier,
\* as copies of that transmittal.
MatchedFiles(dir, doc) ==
    {[name |-> n, id |-> dir.id] : n \in {m \in dir.files : Contains(doc, Lower(m))}}

\* C10: when an accepted transmittal has been synchronized, the mirrored files
\* whose lower-cased name contains a document identifier of its rows are the files
\* the transmittal matched for that document, as the transmittal holds them; what
\* earlier transmittals mirrored for it is gone.
C10_MirrorLastWriterWins ==
    pc = "move" =>
        \A doc \in DocKeys(ManifestRows(transmittal)) :
            MirroredFor(doc) = MatchedFiles(transmittal, doc)

\* C10 witness: transmittal 1 was accepted with a1 for document "a"; transmittal 2,
\* with rows for the documents "ab" and "a", is synchronized: the mirror holds its
\* a2 and Ab, and a1 is gone.
C10_Witness ==
    /\ pc = "move"
    /\ transmittal.id = 2
    /\ \E i \in 1..Len(database.rows) :
            /\ RowTransmittal(database.rows[i]) = Str(DigitText(1))
            /\ database.rows[i][Len(DATABASE_HEADERS)] = Str(<<"a", "1">>)
    /\ DocKeys(ManifestRows(transmittal)) = {<<"a">>, <<"a", "b">>}
    /\ current = {[name |-> <<"a", "2">>, id |-> 2], [name |-> <<"A", "b">>, id |-> 2]}

\* The names of the mirrored files that contain the identifier and were copied
\* from the transmittal of that number, sorted and joined as a filenames cell.
MirroredFrom(doc, number) ==
    Str(Join(SortedSeq({f.name : f \in {g \in MirroredFor(doc) : Str(DigitText(g.id)) = number}}),
             <<";", " ">>))

\* The mirror holds, for the document, the files recorded in the last history row
\* of that document, as copies of the transmittal of that row.
MirrorHoldsLatest(doc) ==
    \E i \in {Last(RowsOf(database.rows, doc))} :
        MirroredFrom(doc, RowTransmittal(database.rows[i]))
            = database.rows[i][Len(DATABASE_HEADERS)]

\* C11: between transmittals, the Current Files mirror holds, for every document
\* identifier of the latest-version index, the files matched for that document in
\* the transmittal that last accepted it, also for the documents the most recent
\* transmittal did not touch.
C11_MirrorHoldsIndex ==
    (pc \in {"idle", "loop"}) =>
        \A doc \in DocKeys(doc_list.rows) :
            RowsOf(database.rows, doc) # {} => MirrorHoldsLatest(doc)

\* C12: within one run the pending transmittals are processed one at a time in
\* name-sorted order, and the version history index of a transmittal is rebuilt
\* from the history table when that transmittal starts, so it holds every pair
\* accepted earlier in the run: the run takes up every pending name; the directory
\* processed bears the least name still to process; nothing else is taken up while
\* it is on its accepted path; its index is the pairs of the history table as it
\* stands; and when the last of the transmittals of a run submits a pair the
\* history table holds by then, its row is reported as DuplicateVersion and it is
\* rejected.
C12_SortedOneAtATime ==
    [][/\ (pc = "idle" /\ pc' = "loop") => Range(queue') = {d.name : d \in pending}
       /\ Processes =>
            /\ transmittal'.name = Head(queue)
            /\ \A name \in Range(queue') : StrLess(transmittal'.name, name)
            /\ Readable(transmittal') => existing_versions' = HistoryPairs(database)
            /\ (queue' = <<>> /\ Readable(transmittal')) =>
                    \A i \in KnownRows(ManifestRows(transmittal'), HistoryPairs(database)) :
                        /\ [idx |-> i + 1, kind |-> "DuplicateVersion"] \in Range(errors')
                        /\ result'.outcome = "rejected"
       /\ (pc \in {"append", "doc_list", "sync", "move"}) =>
            /\ queue' = queue
            /\ transmittal' = transmittal
            /\ existing_versions' = existing_versions
            /\ transmittal \in pending]_vars

\* C12 witness: X and Y were pending together, Y submitted first, both with the one
\* row document "a" version "b"; X was processed first and accepted, Y was
\* rejected for its one row, as DuplicateVersion.
C12_Witness ==
    /\ pc = "loop"
    /\ queue = <<>>
    /\ transmittals = {<<"X">>, <<"Y">>}
    /\ [name |-> <<"X">>, id |-> 2] \in accepted
    /\ transmittal.name = <<"Y">>
    /\ transmittal.id = 1
    /\ transmittal.id \in Ids(rejected)
    /\ Len(ManifestRows(transmittal)) = 1
    /\ errors = <<[idx |-> 2, kind |-> "DuplicateVersion"]>>
    /\ \E i \in 1..Len(database.rows) :
            /\ RowTransmittal(database.rows[i]) = Str(DigitText(2))
            /\ RowKey(database.rows[i]) = RowKey(ManifestRows(transmittal)[1])

\* C13: a header mismatch on the history table or on the latest-version index
\* aborts the run before any transmittal is processed: when the run has ended on
\* HeaderMismatch, every directory it found pending is still pending, and the
\* history table holds no row of a directory that is still pending.
C13_HeaderMismatchAbortsFirst ==
    (pc = "crashed" /\ result.reason = "HeaderMismatch") =>
        /\ \A name \in transmittals : \E d \in pending : d.name = name
        /\ \A i \in 1..Len(database.rows) : \A d \in pending :
                RowTransmittal(database.rows[i]) # Str(DigitText(d.id))

\* C14: a failure during the Current Files synchronization, the unlink of a stale
\* mirror file or the copy of a listed file, is logged and skipped and does not
\* affect the acceptance: the synchronization step leaves the history table and
\* the index as updated and hands the transmittal to its relocation.
C14_SyncFailureSkipped ==
    [][(pc = "sync") =>
          /\ pc' = "move"
          /\ database' = database
          /\ doc_list' = doc_list
          /\ transmittal' = transmittal]_vars

\* The header row has no empty cell and, each cell trimmed, rid of its trailing
\* semicolons and upper-cased, every column of the transmittal schema is in it.
SchemaHeader(header) ==
    /\ \A i \in 1..Len(header) : header[i][1] = "str"
    /\ \A k \in 1..Len(EXPECTED_HEADERS) :
            \E i \in 1..Len(header) :
                Upper(RStripChar(Strip(header[i][2]), ";")) = EXPECTED_HEADERS[k]

\* C15: a manifest that cannot be read rejects the transmittal before any row is
\* validated. The step that processes a directory without its manifest, or whose
\* manifest has an empty header cell or lacks an expected column, records neither
\* a validated row nor a row error, leaves the history table, the index and the
\* mirror as they were, and moves the directory under the rejected root.
C15_UnreadableManifestRejected ==
    [][(Processes /\ (~transmittal'.log.exists \/ ~SchemaHeader(transmittal'.log.header))) =>
          /\ processed_rows' = <<>>
          /\ errors' = <<>>
          /\ database' = database
          /\ doc_list' = doc_list
          /\ current' = current
          /\ accepted' = accepted
          /\ pending' = pending \ {transmittal'}
          /\ Ids(rejected') = Ids(rejected) \cup {transmittal'.id}
          /\ result'.outcome = "rejected"
          /\ result'.reason \in {"MissingManifest", "ManifestHeader"}
          /\ pc' = "loop"]_vars

\* C15 witness: a manifest with a row under a header without the TITLE column was
\* rejected for its header, with no row validated and no row error.
C15_Witness ==
    /\ pc = "loop"
    /\ result = [outcome |-> "rejected", reason |-> "ManifestHeader"]
    /\ transmittal.log.exists
    /\ H_TITLE \notin Range(HeaderNames(transmittal.log.header))
    /\ Len(transmittal.log.rows) = 1
    /\ processed_rows = <<>>
    /\ errors = <<>>
    /\ transmittal.id \in Ids(rejected)
    /\ transmittal \notin pending

\* The positions of the sheet rows with a cell that is neither empty nor "".
NonBlankRows(rows) ==
    {i \in 1..Len(rows) : \E j \in 1..Len(rows[i]) : rows[i][j] \notin {NoneV, Str(<<>>)}}

\* The manifest rows, counted from 1, that the errors are about.
ErrorRows(errs) == {errs[k].idx - 1 : k \in 1..Len(errs)}

\* C16: full aggregation. The step that processes a readable manifest evaluates
\* every row that is not blank, whatever the rows before it did: each such row is
\* either a validated row or the subject of one error, never both, so the validated
\* rows and the errors add up to the rows that are not blank; and the decision
\* is taken with every error recorded: the accepted path is taken with none.
C16_FullAggregation ==
    [][(Processes /\ transmittal'.log.exists /\ SchemaHeader(transmittal'.log.header)) =>
          /\ Len(processed_rows') + Len(errors')
                = Cardinality(NonBlankRows(transmittal'.log.rows))
          /\ Cardinality(ErrorRows(errors')) = Len(errors')
          /\ ErrorRows(errors') \subseteq 1..Cardinality(NonBlankRows(transmittal'.log.rows))
          /\ (pc' = "append") => errors' = <<>>
          /\ (errors' # <<>>) => result'.outcome = "rejected"]_vars

\* C16 witness: of the two rows of a manifest the first failed and the second was
\* validated all the same; the transmittal was rejected with one row and one error.
C16_Witness ==
    /\ pc = "loop"
    /\ result = [outcome |-> "rejected", reason |-> "ValidationErrors"]
    /\ Cardinality(NonBlankRows(transmittal.log.rows)) = 2
    /\ Len(errors) = 1
    /\ errors[1].idx = 2
    /\ Len(processed_rows) = 1
    /\ processed_rows[1].raw[Col(H_VERSION)] = transmittal.log.rows[2][Col(H_VERSION)]

\* The rows of the table that bear the number of the transmittal.
RowsFrom(table, dir) ==
    {i \in 1..Len(table.rows) : RowTransmittal(table.rows[i]) = Str(DigitText(dir.id))}

\* C17: on the accepted path the history append comes first, then the merge of the
\* index, then the synchronization of the mirror, then the relocation. The history
\* table changes only in the append step; the index only in the step after it, the
\* rows of the transmittal then in the history table; the mirror only in the step
\* after that, the index then holding a row of the transmittal; the directory
\* enters the accepted root only after the three, and is at its pending location
\* during each of them.
C17_AcceptedPathOrder ==
    [][/\ (pc = "append") => pc' \in {"doc_list", "crashed"}
       /\ (pc = "doc_list") => pc' \in {"sync", "crashed"}
       /\ (pc = "sync") => pc' \in {"move", "crashed"}
       /\ (pc = "move") => (pc' = "loop" /\ Ids(accepted') = Ids(accepted) \cup {transmittal.id})
       /\ (database' # database) => (pc = "append" /\ RowsFrom(database, transmittal) = {})
       /\ (doc_list' # doc_list) =>
                (pc = "doc_list" /\ Cardinality(RowsFrom(database, transmittal)) = Len(processed_rows))
       /\ (current' # current) => (pc = "sync" /\ RowsFrom(doc_list, transmittal) # {})
       /\ (accepted' # accepted) =>
                /\ pc = "move"
                /\ Cardinality(RowsFrom(database, transmittal)) = Len(processed_rows)
                /\ RowsFrom(doc_list, transmittal) # {}
                /\ \A doc \in DocKeys(ManifestRows(transmittal)) :
                        MirroredFor(doc) = MatchedFiles(transmittal, doc)
       /\ (pc \in {"append", "doc_list", "sync", "move"}) =>
                /\ transmittal \in pending
                /\ transmittal.id \notin Ids(accepted)
                /\ (pc # "move") => (pending' = pending /\ accepted' = accepted)]_vars

\* C17 witness: the rows of transmittal 1 are in the history table and in the
\* index and its file a1 is in the mirror, while its directory X is still pending
\* and not under the accepted root.
C17_Witness ==
    /\ pc = "move"
    /\ transmittal.id = 1
    /\ transmittal.name = <<"X">>
    /\ RowsFrom(database, transmittal) # {}
    /\ RowsFrom(doc_list, transmittal) # {}
    /\ current = {[name |-> <<"a", "1">>, id |-> 1]}
    /\ transmittal \in pending
    /\ accepted = {}

\* The row, taken alone, passes every check against the pairs: its required fields
\* are present, its pair is not among the pairs, and its date is a date.
PassesAlone(raw, pairs) ==
    /\ \A field \in REQUIRED_FIELDS : ~IsEmptyValue(raw[Col(field)])
    /\ RowKey(raw) \notin pairs
    /\ ~CoerceDateRaises(raw[Col(H_DATE)])

\* There are rows, and each passes alone.
AllPassAlone(rows, pairs) ==
    rows # <<>> /\ \A i \in 1..Len(rows) : PassesAlone(rows[i], pairs)

\* C18: the version history index is not updated while the rows of a transmittal
\* are validated. A readable manifest each of whose rows passes against the
\* history table as it stands is accepted with every row validated, also when two
\* of its rows carry the same pair; the index used is the pairs of the history
\* table; and the append adds one history row per validated row.
C18_IndexFixedWithinManifest ==
    [][/\ (Processes /\ AllPassAlone(ManifestRows(transmittal'), HistoryPairs(database)))
          => /\ pc' = "append"
             /\ errors' = <<>>
             /\ Len(processed_rows') = Len(ManifestRows(transmittal'))
             /\ existing_versions' = HistoryPairs(database)
       /\ (pc = "append" /\ pc' = "doc_list") =>
             Len(database'.rows) = Len(database.rows) + Len(processed_rows)]_vars

\* C18 witness: a manifest with the rows "a" / "b" and "A " / " B", the same pair,
\* was accepted, and the history table holds both rows.
C18_Witness ==
    /\ pc = "doc_list"
    /\ Len(processed_rows) = 2
    /\ RowKey(processed_rows[1].raw) = RowKey(processed_rows[2].raw)
    /\ processed_rows[1].raw # processed_rows[2].raw
    /\ Len(database.rows) = 2
    /\ RowsFrom(database, transmittal) = {1, 2}
    /\ RowKey(database.rows[1]) = RowKey(database.rows[2])

\* The row of the index for the document is, on the 13 transmittal columns, the
\* last row the history table has for it.
AgreesWithHistory(index_rows, history_rows, doc) ==
    \A i \in RowsOf(index_rows, doc) :
        index_rows[i] = SubSeq(history_rows[Last(RowsOf(history_rows, doc))],
                               1, Len(EXPECTED_HEADERS))

\* C19: from stores without rows, and as long as no exception has ended a run, the
\* latest-version index and the history table agree between transmittals: they
\* hold the same normalized document identifiers, and the index row of each
\* identifier is, on the 13 transmittal columns, the last history row of that
\* identifier.
C19_IndexAgreesWithHistory ==
    (pc \in {"idle", "loop"}) =>
        /\ DocKeys(doc_list.rows) = DocKeys(database.rows)
        /\ \A doc \in DocKeys(doc_list.rows) :
                /\ Cardinality(RowsOf(doc_list.rows, doc)) = 1
                /\ AgreesWithHistory(doc_list.rows, database.rows, doc)

\* C19 witness: two transmittals were accepted, the history table holds three rows,
\* two of them for the document "a", and the index holds for "a" the row of the
\* second transmittal and for "ab" the row of the first.
C19_Witness ==
    /\ pc = "idle"
    /\ Cardinality(accepted) = 2
    /\ Len(database.rows) = 3
    /\ Cardinality(RowsOf(database.rows, <<"a">>)) = 2
    /\ Len(doc_list.rows) = 2
    /\ \E i \in RowsOf(doc_list.rows, <<"a">>) : RowTransmittal(doc_list.rows[i]) = Str(DigitText(2))
    /\ \E i \in RowsOf(doc_list.rows, <<"a", "b">>) : RowTransmittal(doc_list.rows[i]) = Str(DigitText(1))

\* The first step a row fails, in the order required fields, duplicate check, date
\* coercion; "none" when it fails none.
FirstFailure(raw, pairs) ==
    IF \E field \in REQUIRED_FIELDS : IsEmptyValue(raw[Col(field)]) THEN "MissingRequiredField"
    ELSE IF RowKey(raw) \in pairs THEN "DuplicateVersion"
    ELSE IF CoerceDateRaises(raw[Col(H_DATE)]) THEN "InvalidDate"
    ELSE "none"

\* One error for each row that fails a step, about the first step it fails.
FirstFailures(rows, pairs) ==
    {[idx |-> i + 1, kind |-> FirstFailure(rows[i], pairs)] :
        i \in {j \in 1..Len(rows) : FirstFailure(rows[j], pairs) # "none"}}

\* C20: the checks of a row run in the order required fields, normalization,
\* duplicate check, date coercion, file matching, and a row reports the first step
\* it fails and no other. The errors of a readable manifest are, in row order, one
\* per failing row and about its first failing step: a known pair with an
\* unparseable date is reported as DuplicateVersion, an empty identifier or version
\* as a missing required field, and the empty-value error of the normalizers is
\* never reported.
C20_FirstFailingStep ==
    [][(Processes /\ transmittal'.log.exists /\ SchemaHeader(transmittal'.log.header)) =>
          /\ Range(errors') = FirstFailures(ManifestRows(transmittal'), HistoryPairs(database))
          /\ \A k, l \in 1..Len(errors') : k < l => errors'[k].idx < errors'[l].idx
          /\ \A k \in 1..Len(errors') : errors'[k].kind # "EmptyField"]_vars

\* C20 witness: the history table holds the pair "a" / "b"; a manifest came with
\* that pair under the date "x" and with a row of blank version: the first was
\* reported as DuplicateVersion, the second as a missing required field.
C20_Witness ==
    /\ pc = "loop"
    /\ result.outcome = "rejected"
    /\ <<<<"a">>, <<"b">>>> \in HistoryPairs(database)
    /\ Len(ManifestRows(transmittal)) = 2
    /\ RowKey(ManifestRows(transmittal)[1]) = <<<<"a">>, <<"b">>>>
    /\ ManifestRows(transmittal)[1][Col(H_DATE)] = Str(<<"x">>)
    /\ ManifestRows(transmittal)[2][Col(H_VERSION)] = Str(<<" ">>)
    /\ errors = <<[idx |-> 2, kind |-> "DuplicateVersion"],
                  [idx |-> 3, kind |-> "MissingRequiredField"]>>

====
